---- MODULE Spec2Model ----
(***************************************************************************)
(* Model of standardize_data (src/xiaohongshu_analyst.py, lines 10-96):    *)
(* the schema-normalization adapter that detects the platform of an        *)
(* uploaded table, renames its columns to the nine standard fields,        *)
(* back-fills and coerces them, derives CTR and the engagement total.      *)
(*                                                                         *)
(* Column names.  The source's column names are Chinese strings; the       *)
(* module writes each as an ASCII gloss.  A column name is a sequence of   *)
(* tokens: the token " " is one whitespace character, every other token    *)
(* is an indivisible piece of text.  str.strip() removes the leading and   *)
(* trailing " " tokens; `sub in name` holds when sub is one of the tokens. *)
(*   "note title" (line 26)        "title"          (line 78, 1st)         *)
(*   "impressions" (27, 78 2nd)    "view count" (28) "views" (78, 3rd)     *)
(*   "cover ctr" (29)              "ctr" (78, 9th)                         *)
(*   "likes" "comments" "favorites" "shares" "new_followers" (30-34, 78)   *)
(*   "video description" (43) "post description" (44) "content" (45)       *)
(*   "play count" (46) "browse times" (47) "view times" (48)               *)
(*   "like" (49) "like times" (50) "comment count" (51)                    *)
(*   "comment times" (52) "favorite times" (53) "share count" (54)         *)
(*   "forward times" (55) "share times" (56) "follow count" (57)           *)
(*   "net follows" (58) "recommend" (59) "recommend times" (60)            *)
(*   "forwarded to chat/timeline" (66)   "engagement_total" (94)           *)
(*                                                                         *)
(* Cells.  A cell is a record: a number n/d (kind "num"), a text (kind     *)
(* "text", a sequence of characters), a missing value / NaN (kind "nan")   *)
(* or a signed infinity (kind "inf").  Source cells are integers, texts    *)
(* and blanks; fractions, infinities and NaN arise only from the float     *)
(* division of line 91.                                                    *)
(***************************************************************************)
EXTENDS Integers, Sequences, FiniteSets

VARIABLES raw_df, df, df_std, platform, fields, ctr_derived, pc

vars == <<raw_df, df, df_std, platform, fields, ctr_derived, pc>>

\* ------------------------------------------------------------------ cells

Num(n) == [kind |-> "num", n |-> n, d |-> 1, text |-> <<>>]

NaN == [kind |-> "nan", n |-> 0, d |-> 1, text |-> <<>>]

Inf(s) == [kind |-> "inf", n |-> s, d |-> 1, text |-> <<>>]

Text(t) == [kind |-> "text", n |-> 0, d |-> 1, text |-> t]

Abs(x) == IF x < 0 THEN -x ELSE x

RECURSIVE Gcd(_, _)
Gcd(a, b) == IF b = 0 THEN a ELSE Gcd(b, a % b)

\* The float n/d of two integers, d # 0, as a fraction in lowest terms.
Rat(n, d) ==
    LET g == Gcd(Abs(n), Abs(d))
        s == IF d < 0 THEN -1 ELSE 1
    IN  [kind |-> "num", n |-> (s * n) \div g, d |-> Abs(d) \div g, text |-> <<>>]

DigitChars == <<"0", "1", "2", "3", "4", "5", "6", "7", "8", "9">>

IsDigit(c) == \E k \in 1..10 : DigitChars[k] = c

DigitValue(c) == (CHOOSE k \in 1..10 : DigitChars[k] = c) - 1

RECURSIVE ParseDigits(_, _)
ParseDigits(t, acc) ==
    IF t = <<>> THEN acc ELSE ParseDigits(Tail(t), 10 * acc + DigitValue(Head(t)))

\* pd.to_numeric(..., errors='coerce') on one cell: a number stays, a text
\* that is a decimal numeral parses, anything else becomes NaN.
to_numeric(c) ==
    CASE c.kind = "num"  -> c
      [] c.kind = "inf"  -> c
      [] c.kind = "nan"  -> NaN
      [] c.kind = "text" ->
            IF c.text # <<>> /\ \A k \in 1..Len(c.text) : IsDigit(c.text[k])
            THEN Num(ParseDigits(c.text, 0))
            ELSE NaN

\* Mutant of fillna: the fillna(0) forgotten.
fillnaForgotten(c) == c

\* Series.fillna(0) on one cell.
fillna(c) == IF c.kind = "nan" THEN Num(0) ELSE c

\* pd.to_numeric(series, errors='coerce').fillna(0)
CoerceSeries(cells) == [r \in DOMAIN cells |-> fillna(to_numeric(cells[r]))]

\* Element-wise + of two coerced cells (integers after coercion).
Add(a, b) == Num(a.n + b.n)

\* Element-wise float division of two coerced cells (line 91): x/0 is
\* +-inf, 0/0 is NaN.
Divide(a, b) ==
    IF b.n = 0
    THEN IF a.n > 0 THEN Inf(1) ELSE IF a.n < 0 THEN Inf(-1) ELSE NaN
    ELSE Rat(a.n, b.n)

RECURSIVE SumFrom(_, _)
SumFrom(cells, k) == IF k = 0 THEN 0 ELSE cells[k].n + SumFrom(cells, k - 1)

\* Series.sum() of a coerced column.
Sum(cells) == SumFrom(cells, Len(cells))

\* ---------------------------------------------------------- column names

Col(s) == <<s>>

RECURSIVE LStrip(_)
LStrip(name) ==
    IF name # <<>> /\ Head(name) = " " THEN LStrip(Tail(name)) ELSE name

RECURSIVE RStrip(_)
RStrip(name) ==
    IF name # <<>> /\ name[Len(name)] = " "
    THEN RStrip(SubSeq(name, 1, Len(name) - 1))
    ELSE name

\* Mutant of strip: lstrip() instead of strip().
LStripOnly(name) == LStrip(name)

\* c.strip()
strip(name) == LStrip(RStrip(name))

\* `sub in col` for the one substring the source looks for.
Contains(name, sub) == \E k \in 1..Len(name) : name[k] = sub

\* ----------------------------------------------------------- data frames
\* A data frame is the sequence of its columns, [name, cells], in file
\* order; all columns have the same number of rows.

Columns(d) == {d[i].name : i \in 1..Len(d)}

Positions(d, name) == {i \in 1..Len(d) : d[i].name = name}

\* d[name] is a Series only when the label is unique; with a duplicated
\* label it is a DataFrame, which pd.to_numeric rejects with a TypeError.
IsSeries(d, name) == Cardinality(Positions(d, name)) = 1

GetItem(d, name) == d[CHOOSE i \in Positions(d, name) : TRUE].cells

\* d[name] = cells: a new label is appended, an existing label is
\* overwritten in place (every column carrying it).
SetItem(d, name, cells) ==
    IF Positions(d, name) = {}
    THEN Append(d, [name |-> name, cells |-> cells])
    ELSE [i \in 1..Len(d) |->
            IF d[i].name = name THEN [d[i] EXCEPT !.cells = cells] ELSE d[i]]

NumRows(d) == Len(d[1].cells)

Renamed(map, name) ==
    IF \E k \in 1..Len(map) : Col(map[k][1]) = name
    THEN Col(map[CHOOSE k \in 1..Len(map) : Col(map[k][1]) = name][2])
    ELSE name

\* DataFrame.rename(columns=map): every label that is a key of the map is
\* replaced by its value; labels are not merged, so two keys with one
\* value leave two columns with the same label.
Rename(d, map) == [i \in 1..Len(d) |-> [d[i] EXCEPT !.name = Renamed(map, @)]]

\* ------------------------------------------------------- the code's tables

rename_map_A ==
    << <<"note title", "title">>,
       <<"impressions", "impressions">>,
       <<"view count", "views">>,
       <<"cover ctr", "ctr">>,
       <<"likes", "likes">>,
       <<"comments", "comments">>,
       <<"favorites", "favorites">>,
       <<"shares", "shares">>,
       <<"new_followers", "new_followers">> >>

rename_map_B ==
    << <<"video description", "title">>,
       <<"post description", "title">>,
       <<"content", "title">>,
       <<"play count", "views">>,
       <<"browse times", "views">>,
       <<"view times", "views">>,
       <<"like", "likes">>,
       <<"like times", "likes">>,
       <<"comment count", "comments">>,
       <<"comment times", "comments">>,
       <<"favorite times", "favorites">>,
       <<"share count", "shares">>,
       <<"forward times", "shares">>,
       <<"share times", "shares">>,
       <<"follow count", "new_followers">>,
       <<"net follows", "new_followers">>,
       <<"recommend", "impressions">>,
       <<"recommend times", "impressions">> >>

SignatureA == "note title"

SignatureB == {Col("video description"), Col("post description"), Col("content")}

Forwarded == Col("forwarded to chat/timeline")

EngagementCol == Col("engagement_total")

needed_cols ==
    << Col("title"), Col("impressions"), Col("views"), Col("likes"),
       Col("comments"), Col("favorites"), Col("shares"),
       Col("new_followers"), Col("ctr") >>

PlatformA == "Xiaohongshu"

PlatformB == "WeChat Channels"

Unknown == "Unknown"

\* Mutant of DetectPlatform: the two rules in the other order.
DetectPlatformBFirst(columns) ==
    IF \E x \in SignatureB : x \in columns THEN PlatformB
    ELSE IF \E c \in columns : Contains(c, SignatureA) THEN PlatformA
    ELSE Unknown

\* Lines 23, 39, 72: the if / elif / else over the stripped column names.
DetectPlatform(columns) ==
    IF \E c \in columns : Contains(c, SignatureA) THEN PlatformA
    ELSE IF \E x \in SignatureB : x \in columns THEN PlatformB
    ELSE Unknown

\* Mutant of DefaultCell: a missing column created with None.
DefaultCellNone == NaN

\* Lines 79-81: the value a missing standard column is created with.
DefaultCell == Num(0)

\* Line 66: the condition of the shares merge.
MergeWanted(d, dstd) == Forwarded \in Columns(d) /\ Col("shares") \in Columns(dstd)

\* Mutant of MergedShares: the two columns added without fillna(0), so
\* that a NaN on either side makes the sum NaN.
MergedSharesNoFillna(share_1, share_2) ==
    [r \in DOMAIN share_1 |->
        IF to_numeric(share_1[r]).kind = "nan" \/ to_numeric(share_2[r]).kind = "nan"
        THEN NaN
        ELSE Add(to_numeric(share_1[r]), to_numeric(share_2[r]))]

\* Lines 68-70: share_1 + share_2, row by row.
MergedShares(share_1, share_2) ==
    [r \in DOMAIN share_1 |->
        Add(fillna(to_numeric(share_1[r])), fillna(to_numeric(share_2[r])))]

\* Lines 79-81, for the standard columns from the k-th on.
RECURSIVE CompleteFrom(_, _)
CompleteFrom(d, k) ==
    IF k > Len(needed_cols) THEN d
    ELSE CompleteFrom(
            IF needed_cols[k] \in Columns(d) THEN d
            ELSE SetItem(d, needed_cols[k], [r \in 1..NumRows(d) |-> DefaultCell]),
            k + 1)

\* Lines 84-85, for the standard columns from the k-th on; the loop stops
\* with a TypeError (ok = FALSE) at the first duplicated label.
RECURSIVE CoerceFrom(_, _)
CoerceFrom(d, k) ==
    IF k > Len(needed_cols) THEN [frame |-> d, ok |-> TRUE]
    ELSE IF ~IsSeries(d, needed_cols[k]) THEN [frame |-> d, ok |-> FALSE]
    ELSE CoerceFrom(SetItem(d, needed_cols[k], CoerceSeries(GetItem(d, needed_cols[k]))),
                    k + 1)

\* Mutant of CtrGuard: >= instead of > on line 90.
CtrGuardNonStrict(d) ==
    /\ Sum(GetItem(d, Col("ctr"))) = 0
    /\ Sum(GetItem(d, Col("impressions"))) > 0
    /\ Sum(GetItem(d, Col("views"))) > 0
    /\ Sum(GetItem(d, Col("impressions"))) >= Sum(GetItem(d, Col("views")))

\* Lines 88 and 90: the two nested conditions of the CTR fallback.
CtrGuard(d) ==
    /\ Sum(GetItem(d, Col("ctr"))) = 0
    /\ Sum(GetItem(d, Col("impressions"))) > 0
    /\ Sum(GetItem(d, Col("views"))) > 0
    /\ Sum(GetItem(d, Col("impressions"))) > Sum(GetItem(d, Col("views")))

\* Line 91: views / impressions, row by row.
DerivedCtr(d) ==
    [r \in 1..NumRows(d) |->
        Divide(GetItem(d, Col("views"))[r], GetItem(d, Col("impressions"))[r])]

\* Mutant of EngagementTotal: the shares left out of the sum.
EngagementWithoutShares(d) ==
    [r \in 1..NumRows(d) |->
        Add(Add(GetItem(d, Col("likes"))[r], GetItem(d, Col("comments"))[r]),
            GetItem(d, Col("favorites"))[r])]

\* Line 94: likes + comments + favorites + shares, row by row.
EngagementTotal(d) ==
    [r \in 1..NumRows(d) |->
        Add(Add(Add(GetItem(d, Col("likes"))[r], GetItem(d, Col("comments"))[r]),
                GetItem(d, Col("favorites"))[r]),
            GetItem(d, Col("shares"))[r])]

\* ------------------------------------------------------------ the inputs
\* The uploaded tables the model is run on.  Every table has NRows rows and
\* column names that are pairwise different as uploaded (the readers of
\* load_data, lines 98-113, never return two equal labels).

NRows == 2

MaxCols == 3

\* Column names of the uploads whose header varies.
HeaderNames ==
    { Col("note title"), <<"note title", "(id)">>, <<" ", "video description">>,
      Col("content"), Col("play count"), Col("browse times"),
      Col("share count"), Forwarded, EngagementCol, Col("likes"),
      Col("foo"), <<" ", "foo", " ">> }

RECURSIVE InjSeqs(_, _)
InjSeqs(S, n) ==
    IF n = 0 THEN {<<>>}
    ELSE UNION {{Append(s, x) : x \in S \ {s[i] : i \in 1..Len(s)}} :
                s \in InjSeqs(S, n - 1)}

\* The upload with header h (up to MaxCols of the HeaderNames, in any
\* order); the cell of column i, row r is the integer i + r - 1.
HeaderFrame(h) ==
    [i \in 1..Len(h) |-> [name |-> h[i], cells |-> [r \in 1..NRows |-> Num(i + r - 1)]]]

NA == Text(<<"N", "/", "A">>)

Counts == {Num(0), Num(1), Num(2)}

Messy == {Num(-1), Num(1), Text(<<"3">>), NA, NaN}

Titles == {Text(<<"A">>)}

\* Uploads with a fixed header whose cells range over the given values.
Templates ==
    { << [name |-> <<"note title", "(id)">>, vals |-> Titles],
         [name |-> Col("impressions"), vals |-> Counts],
         [name |-> Col("view count"), vals |-> Counts \cup {Num(-1)}] >>,
      << [name |-> <<"note title", " ">>, vals |-> Titles],
         [name |-> Col("cover ctr"), vals |-> {Num(0), Num(1), Num(-1), NA}],
         [name |-> Col("impressions"), vals |-> {Num(0), Num(2)}],
         [name |-> Col("view count"), vals |-> {Num(0), Num(1)}] >>,
      << [name |-> Col("video description"), vals |-> Titles],
         [name |-> Col("share count"), vals |-> Messy],
         [name |-> Forwarded, vals |-> Messy] >>,
      << [name |-> Col("post description"), vals |-> Titles],
         [name |-> Col("like"), vals |-> Messy],
         [name |-> EngagementCol, vals |-> {Num(0), Num(1), NA}] >>,
      << [name |-> Col("content"), vals |-> Titles],
         [name |-> Col("recommend"), vals |-> Counts],
         [name |-> Col("view times"), vals |-> Messy] >> }

RECURSIVE Fill(_, _)
Fill(t, k) ==
    IF k = 0 THEN {<<>>}
    ELSE {Append(p, [name |-> t[k].name, cells |-> c]) :
            p \in Fill(t, k - 1), c \in [1..NRows -> t[k].vals]}

\* ------------------------------------------------------------ the actions

\* Lines 121-123: no file uploaded yet.
Init ==
    /\ raw_df = <<>>
    /\ df = <<>>
    /\ df_std = <<>>
    /\ platform = Unknown
    /\ fields = <<>>
    /\ ctr_derived = FALSE
    /\ pc = "idle"

\* Lines 124-128: load_data returns the uploaded table and
\* standardize_data is called on it.
LoadData ==
    /\ pc = "idle"
    /\ \/ \E n \in 1..MaxCols : \E h \in InjSeqs(HeaderNames, n) : raw_df' = HeaderFrame(h)
       \/ \E t \in Templates : raw_df' \in Fill(t, Len(t))
    /\ df' = raw_df'
    /\ pc' = "called"
    /\ UNCHANGED <<df_std, platform, fields, ctr_derived>>

\* Lines 15-20: platform = "Unknown"; the caller's frame gets its column
\* names stripped in place.
StripColumns ==
    /\ pc = "called"
    /\ df' = [i \in 1..Len(df) |-> [df[i] EXCEPT !.name = strip(@)]]
    /\ platform' = Unknown
    /\ pc' = "detect"
    /\ UNCHANGED <<raw_df, df_std, fields, ctr_derived>>

\* Lines 23-36: the note platform.
RenamePlatformA ==
    /\ pc = "detect"
    /\ DetectPlatform(Columns(df)) = PlatformA
    /\ platform' = PlatformA
    /\ df_std' = Rename(df, rename_map_A)
    /\ pc' = "complete"
    /\ UNCHANGED <<raw_df, df, fields, ctr_derived>>

\* Lines 39-70: the channel platform, with the merge of the two share
\* columns; pd.to_numeric raises when either label is duplicated.
RenamePlatformB ==
    /\ pc = "detect"
    /\ DetectPlatform(Columns(df)) = PlatformB
    /\ platform' = PlatformB
    /\ LET renamed == Rename(df, rename_map_B)
       IN  IF ~MergeWanted(df, renamed)
           THEN df_std' = renamed /\ pc' = "complete"
           ELSE IF IsSeries(renamed, Col("shares")) /\ IsSeries(df, Forwarded)
           THEN /\ df_std' = SetItem(renamed, Col("shares"),
                                     MergedShares(GetItem(renamed, Col("shares")),
                                                  GetItem(df, Forwarded)))
                /\ pc' = "complete"
           ELSE df_std' = renamed /\ pc' = "raised"
    /\ UNCHANGED <<raw_df, df, fields, ctr_derived>>

\* Lines 72-73: return df, "Unknown", [].
ReturnUnknown ==
    /\ pc = "detect"
    /\ DetectPlatform(Columns(df)) = Unknown
    /\ platform' = Unknown
    /\ fields' = <<>>
    /\ pc' = "returned"
    /\ UNCHANGED <<raw_df, df, df_std, ctr_derived>>

\* Lines 77-81.
Complete ==
    /\ pc = "complete"
    /\ df_std' = CompleteFrom(df_std, 1)
    /\ pc' = "coerce"
    /\ UNCHANGED <<raw_df, df, platform, fields, ctr_derived>>

\* Lines 83-85 (needed_cols[1:], the title skipped).
Coerce ==
    /\ pc = "coerce"
    /\ LET res == CoerceFrom(df_std, 2)
       IN  /\ df_std' = res.frame
           /\ pc' = IF res.ok THEN "ctr" ELSE "raised"
    /\ UNCHANGED <<raw_df, df, platform, fields, ctr_derived>>

\* Lines 87-91.
CtrFallback ==
    /\ pc = "ctr"
    /\ ctr_derived' = CtrGuard(df_std)
    /\ df_std' = IF CtrGuard(df_std)
                 THEN SetItem(df_std, Col("ctr"), DerivedCtr(df_std))
                 ELSE df_std
    /\ pc' = "engagement"
    /\ UNCHANGED <<raw_df, df, platform, fields>>

\* Lines 93-96.
Engagement ==
    /\ pc = "engagement"
    /\ df_std' = SetItem(df_std, EngagementCol, EngagementTotal(df_std))
    /\ fields' = needed_cols
    /\ pc' = "returned"
    /\ UNCHANGED <<raw_df, df, platform, ctr_derived>>

Next ==
    \/ LoadData
    \/ StripColumns
    \/ RenamePlatformA
    \/ RenamePlatformB
    \/ ReturnUnknown
    \/ Complete
    \/ Coerce
    \/ CtrFallback
    \/ Engagement

Spec == Init /\ [][Next]_vars

\* The frame standardize_data returned (line 73: df; line 96: df_std).
Returned == IF platform = Unknown THEN df ELSE df_std

\* ------------------------------------------------------------- the claims

Known == platform \in {PlatformA, PlatformB}

\* standardize_data has returned a standardized frame (line 96).
Done == pc = "returned" /\ Known

Table == IF platform = PlatformA THEN rename_map_A ELSE rename_map_B

\* The uploaded columns that carry the standard field c after the rename.
SourceOf(c) == {i \in 1..Len(raw_df) : Renamed(Table, strip(raw_df[i].name)) = c}

Numeric == {needed_cols[k] : k \in 2..Len(needed_cols)}

AllCells(cells, v) == \A r \in DOMAIN cells : cells[r] = v

\* C1 as stated: a returned frame has the nine standard fields; a numeric
\* field without a source column is 0 in every row and a title without a
\* source column is the empty string in every row.
C1_BackfillEmptyTitle ==
    Done =>
        /\ \A k \in 1..Len(needed_cols) : needed_cols[k] \in Columns(df_std)
        /\ \A c \in Numeric :
              SourceOf(c) = {} => AllCells(GetItem(df_std, c), Num(0))
        /\ SourceOf(Col("title")) = {} =>
              AllCells(GetItem(df_std, Col("title")), Text(<<>>))

\* C1 amended: a returned frame has the nine standard fields; a numeric
\* field without a source column is 0 in every row, except ctr when the
\* CTR fallback has derived it; a title without a source column is the
\* number 0 in every row.
C1_BackfillZero ==
    Done =>
        /\ \A k \in 1..Len(needed_cols) : needed_cols[k] \in Columns(df_std)
        /\ \A c \in Numeric :
              (SourceOf(c) = {} /\ ~(c = Col("ctr") /\ ctr_derived)) =>
                  AllCells(GetItem(df_std, c), Num(0))
        /\ SourceOf(Col("title")) = {} =>
              AllCells(GetItem(df_std, Col("title")), Num(0))

\* A returned frame whose title and likes had no source column and whose
\* ctr, without a source column either, was derived by the fallback.
C1_Witness ==
    /\ Done
    /\ SourceOf(Col("title")) = {}
    /\ SourceOf(Col("likes")) = {}
    /\ SourceOf(Col("ctr")) = {}
    /\ ctr_derived
    /\ AllCells(GetItem(df_std, Col("likes")), Num(0))

\* C2: when the CTR fallback is applied, a row's ctr is its views divided
\* by its impressions if its impressions is nonzero, and 0 otherwise.
C2_PerRowCtrGuarded ==
    (pc = "returned" /\ ctr_derived) =>
        \A r \in 1..NumRows(df_std) :
            LET imp == GetItem(df_std, Col("impressions"))[r].n
                vw  == GetItem(df_std, Col("views"))[r].n
            IN  GetItem(df_std, Col("ctr"))[r] =
                    IF imp # 0 THEN Rat(vw, imp) ELSE Num(0)

\* C3: the fallback step replaces the coerced ctr column by views /
\* impressions exactly when sum(ctr) = 0 and sum(impressions) > sum(views)
\* > 0, and leaves every row's ctr as it was otherwise; nothing after the
\* step changes ctr.
C3_FallbackIff ==
    [][ /\ pc = "ctr" =>
            LET ctr == GetItem(df_std, Col("ctr"))
                imp == GetItem(df_std, Col("impressions"))
                vw  == GetItem(df_std, Col("views"))
                applies == Sum(ctr) = 0 /\ Sum(imp) > Sum(vw) /\ Sum(vw) > 0
            IN  /\ ctr_derived' = applies
                /\ GetItem(df_std', Col("ctr")) =
                      IF applies
                      THEN [r \in 1..NumRows(df_std) |-> Divide(vw[r], imp[r])]
                      ELSE ctr
        /\ pc = "engagement" =>
            GetItem(df_std', Col("ctr")) = GetItem(df_std, Col("ctr")) ]_vars

\* A returned frame whose ctr was derived and is nonzero in some row.
C3_Witness ==
    /\ Done
    /\ ctr_derived
    /\ \E r \in 1..NumRows(df_std) : GetItem(df_std, Col("ctr"))[r] = Rat(1, 2)

\* C4: in a returned frame every row's engagement_total is that row's
\* likes + comments + favorites + shares, also when the upload had a
\* column of that name.
C4_EngagementTotal ==
    Done =>
        /\ EngagementCol \in Columns(df_std)
        /\ \A i \in Positions(df_std, EngagementCol) :
              \A r \in 1..NumRows(df_std) :
                  df_std[i].cells[r] =
                      Num(GetItem(df_std, Col("likes"))[r].n
                          + GetItem(df_std, Col("comments"))[r].n
                          + GetItem(df_std, Col("favorites"))[r].n
                          + GetItem(df_std, Col("shares"))[r].n)

\* A returned frame whose upload had an engagement_total column with
\* another value than the sum, and a nonzero shares.
C4_Witness ==
    /\ Done
    /\ \E i \in 1..Len(raw_df) :
          /\ strip(raw_df[i].name) = EngagementCol
          /\ df_std[i].name = EngagementCol
          /\ df_std[i].cells # raw_df[i].cells
    /\ \E r \in 1..NumRows(df_std) : GetItem(df_std, Col("likes"))[r].n > 0

\* The column name without its leading and trailing whitespace, stated
\* without reference to strip.
IsTrimOf(out, name) ==
    /\ out = <<>> \/ (out[1] # " " /\ out[Len(out)] # " ")
    /\ \E a \in 0..Len(name) :
          /\ a + Len(out) <= Len(name)
          /\ \A k \in 1..Len(name) :
                IF k > a /\ k <= a + Len(out) THEN name[k] = out[k - a]
                ELSE name[k] = " "

TrimmedNames == {n \in UNION {{SubSeq(raw_df[i].name, a, b) : a, b \in 1..Len(raw_df[i].name)} :
                               i \in 1..Len(raw_df)} :
                    \E i \in 1..Len(raw_df) : IsTrimOf(n, raw_df[i].name)}

\* C5: the platform is PlatformA when some trimmed column name contains
\* the note-title signature, otherwise PlatformB when some trimmed column
\* name is one of the three PlatformB signature names, otherwise Unknown
\* (a function of the set of names, whatever their order); with both
\* signatures present the platform is PlatformA and the columns are
\* renamed by the PlatformA table only.
C5_Detection ==
    pc \notin {"idle", "called", "detect"} =>
        /\ platform =
              IF \E n \in TrimmedNames : \E k \in 1..Len(n) : n[k] = "note title"
              THEN PlatformA
              ELSE IF \E n \in TrimmedNames :
                         n \in {<<"video description">>, <<"post description">>,
                                <<"content">>}
              THEN PlatformB
              ELSE Unknown
        /\ platform = PlatformA =>
              \A i \in 1..Len(raw_df) :
                  LET n == df[i].name
                  IN  df_std[i].name =
                        IF \E k \in 1..Len(rename_map_A) : n = <<rename_map_A[k][1]>>
                        THEN <<rename_map_A[CHOOSE k \in 1..Len(rename_map_A) :
                                              n = <<rename_map_A[k][1]>>][2]>>
                        ELSE n

\* A returned PlatformA frame whose upload also had a PlatformB signature
\* column, which kept its name.
C5_Witness ==
    /\ pc = "returned"
    /\ platform = PlatformA
    /\ \E i \in 1..Len(raw_df) :
          raw_df[i].name = Col("content") /\ df_std[i].name = Col("content")
    /\ \E i \in 1..Len(raw_df) : df_std[i].name = Col("title")

\* C6 as stated: with no platform signature the result is Unknown, an
\* empty field list and the frame as it was passed in, column names with
\* surrounding whitespace included.
C6_UnknownUntouched ==
    (pc = "returned" /\ platform = Unknown) =>
        fields = <<>> /\ Returned = raw_df

\* C6 amended: with no platform signature the result is Unknown, an empty
\* field list and the frame passed in with the same columns in the same
\* order, the same rows and cells, and each column name trimmed of its
\* surrounding whitespace; no column is added.
C6_UnknownTrimmedOnly ==
    (pc = "returned" /\ ~Known) =>
        /\ platform = Unknown
        /\ fields = <<>>
        /\ df_std = <<>>
        /\ Len(Returned) = Len(raw_df)
        /\ \A i \in 1..Len(raw_df) :
              /\ Returned[i].cells = raw_df[i].cells
              /\ IsTrimOf(Returned[i].name, raw_df[i].name)

\* An Unknown result for an upload with a column name that had whitespace
\* on both sides.
C6_Witness ==
    /\ pc = "returned"
    /\ platform = Unknown
    /\ \E i \in 1..Len(raw_df) :
          raw_df[i].name = <<" ", "foo", " ">> /\ Returned[i].name = <<"foo">>

\* C7: a PlatformB upload with two synonym columns for views is
\* normalized without failure into one views column holding the values of
\* the synonym that comes last in the table.
C7_LastSynonymWins ==
    (platform = PlatformB /\ {Col("play count"), Col("browse times")} \subseteq Columns(df)) =>
        /\ pc # "raised"
        /\ pc = "returned" =>
              /\ IsSeries(df_std, Col("views"))
              /\ \E i \in 1..Len(df) :
                    /\ df[i].name = Col("browse times")
                    /\ GetItem(df_std, Col("views")) = CoerceSeries(df[i].cells)

\* C8: in a returned frame each of the eight numeric standard fields is a
\* finite non-negative number in every row.
C8_FiniteNonNegative ==
    Done =>
        \A c \in Numeric : \A r \in 1..NumRows(df_std) :
            LET v == GetItem(df_std, c)[r]
            IN  v.kind = "num" /\ v.n >= 0

\* C9: for a PlatformB upload with the forwarded column, the returned
\* shares is, row by row, the shares source cell plus the forwarded cell,
\* each coerced on its own with an unparseable or blank cell as 0; with no
\* shares source column, shares is 0 in every row.
C9_SharesMerge ==
    (Done /\ platform = PlatformB /\ Forwarded \in Columns(df)) =>
        LET src == SourceOf(Col("shares"))
            fwd == GetItem(df, Forwarded)
            val(c) == fillna(to_numeric(c)).n
        IN  /\ src = {} => AllCells(GetItem(df_std, Col("shares")), Num(0))
            /\ \A i \in src : \A r \in 1..NumRows(df_std) :
                  GetItem(df_std, Col("shares"))[r] =
                      Num(val(raw_df[i].cells[r]) + val(fwd[r]))

\* A returned PlatformB frame whose shares is the sum of two positive
\* numbers in the first row, and the forwarded cell alone in the second
\* row, where the shares cell could not be parsed.
C9_Witness ==
    /\ Done
    /\ platform = PlatformB
    /\ Forwarded \in Columns(df)
    /\ \E i \in SourceOf(Col("shares")) :
          /\ raw_df[i].cells[1] = Num(1)
          /\ raw_df[i].cells[2] = NA
          /\ GetItem(df, Forwarded)[1] = Text(<<"3">>)
          /\ GetItem(df, Forwarded)[2] = Num(1)
          /\ GetItem(df_std, Col("shares")) = <<Num(4), Num(1)>>

NotMerged(c) ==
    c # Col("shares") \/ platform # PlatformB \/ Forwarded \notin Columns(df)

====
